---- MODULE Spec2Model ----
(***************************************************************************)
(* Session state of the chatbot backend: the in-process conversation cache *)
(* (`conversations`), the Supabase table `conversation`, and the request   *)
(* handlers of the three server variants that the repository holds:        *)
(*   "lazy"      Supabase-backed, row written on the first persist,        *)
(*   "memory"    cache only,                                               *)
(*   "immediate" Supabase-backed, row inserted when a session is created.  *)
(* A handler runs atomically between two awaits on I/O (Node runs one      *)
(* callback at a time and drains microtasks before the next one); each     *)
(* await on Supabase or OpenAI is a suspension point at which any other    *)
(* request may run.                                                        *)
(***************************************************************************)
EXTENDS Integers, Sequences, FiniteSets, TLC

\* ------------------------------------------------------------------ bounds
\* Requests accepted over a run.
MaxReq == 2
\* Supabase calls that may fail over a run.
MaxStoreFaults == 1
\* OpenAI calls that may fail over a run.
MaxCompletionFaults == 1
\* Messages after the system message in a row whose transcript is built.
MaxTranscriptLen == 3
\* Ticks of the clock over a run.
MaxClock == 2
\* Messages that the visitor of the chat page sends over a run.
MaxSends == 3
\* Clicks and searches of the user of the dashboard over a run.
MaxClicks == 3

\* --------------------------------------------------------------- constants
\* `if (conversation.messages.length > 20)` / `.slice(-20)`
HistoryLimit == 20

SessionIds == {"s1", "s2"}
\* Request slots: at most two handlers are suspended at the same time.
Req == {"r1", "r2"}
Variants == {"lazy", "memory", "immediate"}

NoObj == 0
\* Conversation objects on the heap; a handler keeps the reference that
\* initializeConversation returned, whatever the cache maps the id to later.
ObjIds == 1 .. (Cardinality(Req) + Cardinality(SessionIds))
NoRow == [absent |-> TRUE]
NoMsgs == << >>

\* { role: 'system', content: SYSTEM_PROMPT }
SystemMsg == [role |-> "system", content |-> 0]
UserMsg(n) == [role |-> "user", content |-> n]
AssistantMsg(n) == [role |-> "assistant", content |-> n]

\* Exchanges j .. k, each a user message and its reply, in timeline order.
RECURSIVE Exchanges(_, _)
Exchanges(j, k) ==
  IF j > k THEN << >>
  ELSE << UserMsg(j), AssistantMsg(j) >> \o Exchanges(j + 1, k)

\* Exchanges that an earlier run of the server may have left in the table:
\* nine complete ones, so that the next reply crosses HistoryLimit.
StoredExchanges == (HistoryLimit - 2) \div 2
\* The contents of the requests of this run follow those already stored.
FirstContent == StoredExchanges + 1

\* What the table may hold for "s1" when the process starts (the table
\* outlives the process): no row, the system message and nine exchanges, or
\* the same after a user message whose completion failed (content 0).
StoredHistories ==
  { << SystemMsg >> \o Exchanges(1, StoredExchanges),
    << SystemMsg, UserMsg(0) >> \o Exchanges(1, StoredExchanges) }

\* A row of the table: messages and created_at. No statement of the server
\* writes created_at; the database sets it when the row is inserted.
Row(m, at) == [absent |-> FALSE, messages |-> m, created_at |-> at]
\* { messages, createdAt, lastActivity }
Conv(m, at, last) == [messages |-> m, createdAt |-> at, lastActivity |-> last]
NoConv == Conv(NoMsgs, 0, 0)

\* ----------------------------------------------------------------- state
VARIABLES
  variant,        \* which server file runs
  supabase,       \* `supabase` is non-null
  conversations,  \* the cache: session id -> conversation object
  heap,           \* conversation objects
  store,          \* the table `conversation`
  req,            \* the handlers in flight and their last responses
  started,        \* requests accepted so far
  storeFaults,    \* Supabase calls that have failed
  completionFaults, \* OpenAI calls that have failed
  used,           \* session ids seen so far (generateSessionId avoids them)
  fresh,          \* ids whose delete succeeded and that nobody accessed since
  gone,           \* per id, the user and assistant messages that the cache
                  \* or the table held when the last delete of the id began
  leads,          \* the columns lead_analysic and lead_analyzed_at of the rows
  clock,          \* the time that new Date() and the database read
  keys,           \* Object.keys(conversations): the cached ids in insertion order
  page,           \* the chat page: the Chatbot object, its DOM, its fetches
  dash            \* the dashboard page: the Dashboard object, its DOM, its
                  \* fetches, and the sessions its backend holds

vars == << variant, supabase, conversations, heap, store, req, started,
           storeFaults, completionFaults, used, fresh, gone, leads, clock,
           keys, page, dash >>

\* No page is open.
NoPage == [open |-> FALSE]

\* JSON values that an analysis can be: an object (told apart by the request
\* that obtained it), the falsy `false`, and null. A timestamp is a string.
JsonNull == [type |-> "null", id |-> 0]
JsonFalse == [type |-> "false", id |-> 0]
JsonObject(n) == [type |-> "object", id |-> n]
Timestamp(t) == [type |-> "string", id |-> t]

\* The operand of `x || null` that makes it yield null.
Falsy(v) == v.type \in {"null", "false"}
OrNull(v) == IF Falsy(v) THEN JsonNull ELSE v

\* lead_analysic and lead_analyzed_at of a row that was never analyzed.
NoLead == [lead_analysic |-> JsonNull, lead_analyzed_at |-> JsonNull]
Lead(analysis, at) == [lead_analysic |-> analysis, lead_analyzed_at |-> at]

IdleReq ==
  [pc |-> "idle", kind |-> "none", sid |-> "none", n |-> 0, conv |-> NoObj,
   data |-> NoRow, snap |-> NoMsgs, sent |-> 0, status |-> 0,
   body |-> NoMsgs, err |-> "none", afterDelete |-> FALSE, initLen |-> 0,
   initRole |-> "none", wrote |-> FALSE,
   transcript |-> NoMsgs, called |-> FALSE, content |-> NoMsgs,
   analysis |-> JsonNull, analyzedAt |-> JsonNull,
   hasRaw |-> FALSE, raw |-> NoMsgs,
   calls |-> 0, code |-> "none",
   now |-> 0, createdAt |-> 0, lastActivity |-> 0, sessions |-> << >>]

\* A window that drops the oldest message whatever the length. The server
\* does not do this; see TrimHistory.
TrimHistoryDropFirst(m) == Tail(m)

\* conversation.messages.slice(-20) when longer than 20
TrimHistory(m) ==
  IF Len(m) > HistoryLimit
  THEN SubSeq(m, Len(m) - HistoryLimit + 1, Len(m))
  ELSE m

\* A filter that keeps every message. The server does not do this; see
\* NonSystem.
KeepAll(m) == m

\* messages.filter(msg => msg.role !== 'system')
RECURSIVE NonSystem(_)
NonSystem(m) ==
  IF m = << >> THEN << >>
  ELSE IF m[1].role = "system" THEN NonSystem(Tail(m))
       ELSE << m[1] >> \o NonSystem(Tail(m))

Referenced(o, convs, rq) ==
  \/ \E s \in SessionIds : convs[s] = o
  \/ \E r \in Req : rq[r].conv = o

\* The smallest object id nobody refers to: `{ messages: ..., ... }` allocates.
NewObj(convs, rq) ==
  CHOOSE o \in ObjIds :
    /\ ~Referenced(o, convs, rq)
    /\ \A p \in ObjIds : p < o => Referenced(p, convs, rq)

\* Object.keys of the cache once it is convs: the ids in the order in
\* which they were added; `delete` takes an id out, an assignment to an id
\* that is there keeps its place.
KeysOf(convs) ==
  LET Kept(s) == convs[s] # NoObj
      old == SelectSeq(keys, Kept)
      new == { s \in SessionIds :
                 Kept(s) /\ \A i \in 1 .. Len(old) : old[i] # s }
  IN IF new = {} THEN old ELSE Append(old, CHOOSE s \in new : TRUE)

\* Writes the cache, the heap and the handlers; an object nobody refers to
\* any more is garbage.
Commit(convs, hp, rq) ==
  /\ conversations' = convs
  /\ keys' = KeysOf(convs)
  /\ req' = rq
  /\ heap' = [o \in ObjIds |-> IF Referenced(o, convs, rq) THEN hp[o] ELSE NoConv]

Init ==
  /\ variant \in Variants
  /\ supabase \in BOOLEAN
  /\ variant = "memory" => ~supabase
  \* without Supabase the immediate-insert file runs the statements of the
  \* lazy one
  /\ variant = "immediate" => supabase
  /\ conversations = [s \in SessionIds |-> NoObj]
  /\ heap = [o \in ObjIds |-> NoConv]
  /\ \E h \in {NoMsgs} \cup StoredHistories :
       /\ h # NoMsgs => supabase
       /\ store = [s \in SessionIds |->
                     IF s = "s1" /\ h # NoMsgs THEN Row(h, 0) ELSE NoRow]
       /\ used = IF h # NoMsgs THEN {"s1"} ELSE {}
  /\ req = [r \in Req |-> IdleReq]
  /\ started = 0
  /\ storeFaults = 0
  /\ completionFaults = 0
  /\ fresh = {}
  /\ gone = [s \in SessionIds |-> {}]
  /\ clock = 0
  /\ keys = << >>
  /\ page = NoPage
  /\ dash = NoPage
  /\ leads = [s \in SessionIds |-> NoLead]


\* ------------------------------------------------------- request handlers
\* A slot takes a request when its handler has responded; slots are
\* interchangeable, so "r2" is taken only while "r1" is busy.
Busy(r) == req[r].pc \notin {"idle", "done"}
Free(r) == ~Busy(r) /\ started < MaxReq /\ (r = "r2" => Busy("r1"))

\* Session ids are opaque and interchangeable: a request names an id seen
\* before or the first one not seen yet.
Targets == used \cup (IF "s1" \notin used THEN {"s1"} ELSE SessionIds)

Begin(kind, sid) ==
  [IdleReq EXCEPT !.kind = kind, !.sid = sid, !.n = FirstContent + started,
                  !.afterDelete = (sid \in fresh), !.now = clock]

Accept(sid) ==
  /\ started' = started + 1
  /\ used' = used \cup {sid}
  /\ fresh' = fresh \ {sid}
  /\ gone' = IF sid \in fresh THEN [gone EXCEPT ![sid] = {}] ELSE gone

Respond(q, status) == [q EXCEPT !.pc = "done", !.status = status, !.conv = NoObj]

FirstRole(m) == IF m = << >> THEN "none" ELSE m[1].role

\* What a handler does with the conversation that initializeConversation
\* returned, up to its next await or its response.
AfterInit(q, o, hp) ==
  LET m == hp[o].messages
      q1 == [q EXCEPT !.initLen = Len(m), !.initRole = FirstRole(m)]
  IN CASE q.kind = "chat" ->
            \* conversation.messages.push({ role: 'user', ... });
            \* openai.chat.completions.create({ messages: conversation.messages })
            LET m2 == Append(m, UserMsg(q.n))
            IN [q |-> [q1 EXCEPT !.pc = "completion", !.conv = o,
                                 !.sent = Len(m2), !.calls = q.calls + 1],
                \* conversation.lastActivity = new Date().toISOString()
                h |-> [hp EXCEPT ![o].messages = m2, ![o].lastActivity = clock]]
       [] q.kind = "history" ->
            [q |-> [Respond(q1, 200) EXCEPT !.body = NonSystem(m),
                                            !.createdAt = hp[o].createdAt,
                                            !.lastActivity = hp[o].lastActivity],
             h |-> hp]
       [] OTHER -> [q |-> Respond(q1, 200), h |-> hp]

\* conversations[sessionId] = { messages: m, createdAt: at, lastActivity:
\* nowIso }, then the handler goes on with that object.
CacheAndGoOn(r, q, m, at) ==
  LET o == NewObj(conversations, req)
      a == AfterInit(q, o, [heap EXCEPT ![o] = Conv(m, at, q.now)])
  IN Commit([conversations EXCEPT ![q.sid] = o], a.h, [req EXCEPT ![r] = a.q])

\* An initializeConversation without the cache lookup of its first lines:
\* it builds or fetches the conversation whether or not one is cached. The
\* server does not do this; see EnterInit.
EnterInitNoCache(r, q) ==
  IF ~supabase
  THEN CacheAndGoOn(r, q, << SystemMsg >>, q.now)
  ELSE Commit(conversations, heap, [req EXCEPT ![r] = [q EXCEPT !.pc = "fetch"]])

\* initializeConversation(sessionId) up to its first await.
EnterInit(r, q) ==
  IF conversations[q.sid] # NoObj
  THEN LET a == AfterInit(q, conversations[q.sid], heap)
       IN Commit(conversations, a.h, [req EXCEPT ![r] = a.q])
  ELSE IF ~supabase
       THEN CacheAndGoOn(r, q, << SystemMsg >>, q.now)
       ELSE Commit(conversations, heap, [req EXCEPT ![r] = [q EXCEPT !.pc = "fetch"]])

\* app.post('/api/session'): generateSessionId() gives an id not seen before.
PostSession(r, sid) ==
  /\ Free(r)
  /\ sid \notin used
  /\ Accept(sid)
  /\ EnterInit(r, Begin("session", sid))
  /\ UNCHANGED << variant, supabase, clock, page, dash, leads, store, storeFaults, completionFaults >>

\* app.post('/api/chat') with a message and a session id.
PostChat(r, sid) ==
  /\ Free(r)
  /\ Accept(sid)
  /\ EnterInit(r, Begin("chat", sid))
  /\ UNCHANGED << variant, supabase, clock, page, dash, leads, store, storeFaults, completionFaults >>

\* A chat handler that validates after initializeConversation: the request
\* without a message has created the conversation of its id when it answers
\* 400. The server does not do this; see PostChatInvalid.
PostChatLateCheck(r) ==
  /\ Free(r)
  /\ started' = started + 1
  /\ LET sid == CHOOSE s \in SessionIds : conversations[s] = NoObj \/ s = "s2"
         o == NewObj(conversations, req)
     IN /\ used' = used \cup {sid}
        /\ Commit([conversations EXCEPT ![sid] = o],
                  [heap EXCEPT ![o] = Conv(<< SystemMsg >>, clock, clock)],
                  [req EXCEPT ![r] = Respond([IdleReq EXCEPT !.kind = "chat"], 400)])
  /\ UNCHANGED << variant, supabase, clock, page, dash, leads, store, storeFaults, completionFaults,
                  fresh, gone >>

\* app.post('/api/chat') without a message or without a session id: 400.
PostChatInvalid(r) ==
  /\ Free(r)
  /\ started' = started + 1
  /\ Commit(conversations, heap,
            [req EXCEPT ![r] = Respond([IdleReq EXCEPT !.kind = "chat"], 400)])
  /\ UNCHANGED << variant, supabase, clock, page, dash, leads, store, storeFaults, completionFaults,
                  used, fresh, gone >>

\* app.get('/api/conversation/:sessionId'); the cache-only server answers 404
\* for an id that is not cached, the others create the conversation.
GetConversation(r, sid) ==
  /\ Free(r)
  /\ Accept(sid)
  /\ IF variant = "memory" /\ conversations[sid] = NoObj
     THEN Commit(conversations, heap,
                 [req EXCEPT ![r] = Respond(Begin("history", sid), 404)])
     ELSE EnterInit(r, Begin("history", sid))
  /\ UNCHANGED << variant, supabase, clock, page, dash, leads, store, storeFaults, completionFaults >>

\* Supabase answers the select of initializeConversation: the row, no row,
\* or an error (data is then null).
SupabaseSelect(r, ok) ==
  /\ req[r].pc = "fetch"
  /\ ~ok => storeFaults < MaxStoreFaults
  /\ storeFaults' = IF ok THEN storeFaults ELSE storeFaults + 1
  /\ LET q == req[r]
     IN Commit(conversations, heap,
               [req EXCEPT ![r] = [q EXCEPT !.pc = "fetched",
                                            !.data = IF ok THEN store[q.sid] ELSE NoRow,
                                            !.err = IF ok THEN q.err ELSE "store"]])
  /\ UNCHANGED << variant, supabase, clock, page, dash, leads, store, started, completionFaults, used, fresh, gone >>

\* initializeConversation after its select: `if (!data)` caches a new
\* conversation (the immediate-insert server inserts the row first), else it
\* caches the row's messages. The cache is not looked at again.
InitResume(r) ==
  /\ req[r].pc = "fetched"
  /\ LET q == [req[r] EXCEPT !.data = NoRow]
     IN IF req[r].data.absent
        THEN IF variant = "immediate"
             THEN Commit(conversations, heap,
                         [req EXCEPT ![r] = [q EXCEPT !.pc = "insert"]])
             ELSE CacheAndGoOn(r, q, << SystemMsg >>, q.now)
        \* createdAt: data.created_at || nowIso
        ELSE CacheAndGoOn(r, q, req[r].data.messages, req[r].data.created_at)
  /\ UNCHANGED << variant, supabase, clock, page, dash, leads, store, started, storeFaults,
                  completionFaults, used, fresh, gone >>

\* Supabase answers the insert of the immediate-insert server; a row with
\* the same conversation_id makes it fail. Either way the handler caches the
\* new conversation.
SupabaseInsert(r, ok) ==
  /\ req[r].pc = "insert"
  /\ ~ok => storeFaults < MaxStoreFaults
  /\ LET done == ok /\ store[req[r].sid].absent
         q == [req[r] EXCEPT !.wrote = done,
                             !.err = IF ok THEN req[r].err ELSE "store"]
     IN /\ store' = IF done
                    THEN [store EXCEPT ![req[r].sid] = Row(<< SystemMsg >>, clock)]
                    ELSE store
        /\ CacheAndGoOn(r, q, << SystemMsg >>, q.now)
  /\ storeFaults' = IF ok THEN storeFaults ELSE storeFaults + 1
  /\ UNCHANGED << variant, supabase, clock, page, dash, leads, started, completionFaults, used, fresh, gone >>


\* HTTP status of the catch block of the chat handler.
ErrorCodes == {"insufficient_quota", "invalid_api_key", "other"}

\* HTTP status of a catch block without the branches on error.code. The
\* server does not do this; see ErrorStatus.
ErrorStatusGeneric(code) == 500

\* if (error.code === 'insufficient_quota') 402, else if
\* (error.code === 'invalid_api_key') 401, else 500
ErrorStatus(code) ==
  CASE code = "insufficient_quota" -> 402
    [] code = "invalid_api_key" -> 401
    [] OTHER -> 500

\* persistConversation(sessionId) up to its await: nothing without Supabase
\* or without a cached conversation, else the upsert (update, in the
\* immediate-insert server) of the CACHED conversation's messages.
Persists(sid, convs) == supabase /\ convs[sid] # NoObj

\* The row of sid after an upsert or update of its messages: a row that
\* exists keeps its created_at, a row that is inserted gets the time of the
\* insert.
Written(sid, m) ==
  Row(m, IF store[sid].absent THEN clock ELSE store[sid].created_at)

\* OpenAI answers the chat handler: push the reply, keep the last 20
\* messages, persist, respond.
CompletionOk(r) ==
  /\ req[r].pc = "completion"
  /\ LET q == req[r]
         o == q.conv
         m == TrimHistory(Append(heap[o].messages, AssistantMsg(q.n)))
         hp == [heap EXCEPT ![o].messages = m]
     IN IF Persists(q.sid, conversations)
        THEN Commit(conversations, hp,
                    [req EXCEPT ![r] =
                       [q EXCEPT !.pc = "persist",
                                 !.snap = hp[conversations[q.sid]].messages]])
        ELSE Commit(conversations, hp, [req EXCEPT ![r] = Respond(q, 200)])
  /\ UNCHANGED << variant, supabase, clock, page, dash, leads, store, started, storeFaults,
                  completionFaults, used, fresh, gone >>

\* A catch block that rolls back: it takes the user message out again and
\* writes the row. The server does not do this; see CompletionFail.
CompletionFailRollback(r, code) ==
  /\ req[r].pc = "completion"
  /\ completionFaults < MaxCompletionFaults
  /\ completionFaults' = completionFaults + 1
  /\ LET q == req[r]
         o == q.conv
         m == heap[o].messages
         hp == [heap EXCEPT ![o].messages = SubSeq(m, 1, Len(m) - 1)]
     IN /\ Commit(conversations, hp,
                  [req EXCEPT ![r] =
                     [Respond(q, ErrorStatus(code)) EXCEPT !.err = "completion",
                                                           !.code = code]])
        /\ store' = IF supabase
                    THEN [store EXCEPT ![q.sid] = Written(q.sid, hp[o].messages)]
                    ELSE store
  /\ UNCHANGED << variant, supabase, clock, page, dash, leads, started, storeFaults, used, fresh, gone >>

\* The OpenAI call throws: the catch block maps error.code to a status and
\* responds; nothing else happens.
CompletionFail(r, code) ==
  /\ req[r].pc = "completion"
  /\ completionFaults < MaxCompletionFaults
  /\ completionFaults' = completionFaults + 1
  /\ Commit(conversations, heap,
            [req EXCEPT ![r] =
               [Respond(req[r], ErrorStatus(code)) EXCEPT !.err = "completion",
                                                        !.code = code]])
  /\ UNCHANGED << variant, supabase, clock, page, dash, leads, store, started, storeFaults, used, fresh, gone >>

\* A chat handler that answers 500 when the write of persistConversation
\* fails. The server does not do this; see SupabasePersist.
SupabasePersistAbort(r, ok) ==
  /\ req[r].pc = "persist"
  /\ ~ok => storeFaults < MaxStoreFaults
  /\ storeFaults' = IF ok THEN storeFaults ELSE storeFaults + 1
  /\ LET q == req[r]
         done == ok /\ (variant = "lazy" \/ ~store[q.sid].absent)
     IN /\ store' = IF done THEN [store EXCEPT ![q.sid] = Written(q.sid, q.snap)] ELSE store
        /\ Commit(conversations, heap,
                  [req EXCEPT ![r] =
                     [Respond(q, IF ok THEN 200 ELSE 500) EXCEPT
                        !.snap = NoMsgs,
                        !.wrote = (q.wrote \/ done),
                        !.err = IF ok THEN q.err ELSE "store"]])
  /\ UNCHANGED << variant, supabase, clock, page, dash, leads, started, completionFaults, used, fresh, gone >>

\* Supabase answers the write of persistConversation; an error is logged
\* and the handler responds with the reply all the same. The lazy server
\* upserts, the immediate-insert server updates the row if there is one.
SupabasePersist(r, ok) ==
  /\ req[r].pc = "persist"
  /\ ~ok => storeFaults < MaxStoreFaults
  /\ storeFaults' = IF ok THEN storeFaults ELSE storeFaults + 1
  /\ LET q == req[r]
         done == ok /\ (variant = "lazy" \/ ~store[q.sid].absent)
     IN /\ store' = IF done THEN [store EXCEPT ![q.sid] = Written(q.sid, q.snap)] ELSE store
        /\ Commit(conversations, heap,
                  [req EXCEPT ![r] =
                     [Respond(q, 200) EXCEPT !.snap = NoMsgs,
                                             !.wrote = (q.wrote \/ done),
                                             !.err = IF ok THEN q.err ELSE "store"]])
  /\ UNCHANGED << variant, supabase, clock, page, dash, leads, started, completionFaults, used, fresh, gone >>

\* The user and assistant messages of a session, cached or stored.
History(sid) ==
  ((IF conversations[sid] # NoObj
    THEN { heap[conversations[sid]].messages[i] :
             i \in 1 .. Len(heap[conversations[sid]].messages) }
    ELSE {})
   \cup
   (IF ~store[sid].absent
    THEN { store[sid].messages[i] : i \in 1 .. Len(store[sid].messages) }
    ELSE {})) \ {SystemMsg}

\* app.delete('/api/conversation/:sessionId'): the cache-only server answers
\* 404 for an id that is not cached; the others drop the cache entry and,
\* with Supabase, await the delete of the row.
DeleteConversation(r, sid) ==
  /\ Free(r)
  /\ started' = started + 1
  /\ used' = used \cup {sid}
  /\ gone' = [gone EXCEPT ![sid] = History(sid)]
  /\ LET q == Begin("delete", sid)
         convs == [conversations EXCEPT ![sid] = NoObj]
     IN IF variant = "memory"
        THEN IF conversations[sid] # NoObj
             THEN /\ Commit(convs, heap, [req EXCEPT ![r] = Respond(q, 200)])
                  /\ fresh' = fresh \cup {sid}
             ELSE /\ Commit(conversations, heap, [req EXCEPT ![r] = Respond(q, 404)])
                  /\ fresh' = fresh \ {sid}
        ELSE IF supabase
             THEN /\ Commit(convs, heap, [req EXCEPT ![r] = [q EXCEPT !.pc = "delete"]])
                  /\ fresh' = fresh \ {sid}
             ELSE /\ Commit(convs, heap, [req EXCEPT ![r] = Respond(q, 200)])
                  /\ fresh' = fresh \cup {sid}
  /\ UNCHANGED << variant, supabase, clock, page, dash, leads, store, storeFaults, completionFaults >>

\* Supabase answers the delete: 200, or 500 on an error. The row goes with
\* all its columns.
SupabaseDelete(r, ok) ==
  /\ req[r].pc = "delete"
  /\ ~ok => storeFaults < MaxStoreFaults
  /\ storeFaults' = IF ok THEN storeFaults ELSE storeFaults + 1
  /\ LET q == req[r]
     IN /\ store' = IF ok THEN [store EXCEPT ![q.sid] = NoRow] ELSE store
        /\ leads' = IF ok THEN [leads EXCEPT ![q.sid] = NoLead] ELSE leads
        /\ fresh' = IF ok THEN fresh \cup {q.sid} ELSE fresh
        /\ Commit(conversations, heap,
                  [req EXCEPT ![r] =
                     [Respond(q, IF ok THEN 200 ELSE 500) EXCEPT
                        !.wrote = (ok /\ ~store[q.sid].absent),
                        !.err = IF ok THEN q.err ELSE "store"]])
  /\ UNCHANGED << variant, supabase, clock, page, dash, started, completionFaults, used, gone >>

Next ==
  \E r \in Req :
    \/ \E sid \in Targets : PostSession(r, sid)
    \/ \E sid \in Targets : PostChat(r, sid)
    \/ PostChatInvalid(r)
    \/ \E sid \in Targets : GetConversation(r, sid)
    \/ \E sid \in Targets : DeleteConversation(r, sid)
    \/ \E error \in BOOLEAN : SupabaseSelect(r, ~error)
    \/ InitResume(r)
    \/ \E error \in BOOLEAN : SupabaseInsert(r, ~error)
    \/ CompletionOk(r)
    \/ \E code \in ErrorCodes : CompletionFail(r, code)
    \/ \E error \in BOOLEAN : SupabasePersist(r, ~error)
    \/ \E error \in BOOLEAN : SupabaseDelete(r, ~error)

Spec == Init /\ [][Next]_vars

\* ------------------------------------------------------ analysis handlers
\* Only the lazy server has the routes /analyze and /analysis. They read the
\* table and the cache and write the two lead_ columns; they leave
\* conversations, heap and store as they are.

\* m.role.toUpperCase()
Upper(role) ==
  CASE role = "system" -> "SYSTEM"
    [] role = "user" -> "USER"
    [] role = "assistant" -> "ASSISTANT"

\* A content that is not a string: null, a number, an array of content
\* parts. Contents 0, 1, 2, ... are strings.
NoText == -1
\* typeof m.content === 'string'
IsString(content) == content # NoText

\* m => m && typeof m.content === 'string'
HasText(m) == IsString(m.content)

\* A transcript with a line for every message, the system message and the
\* messages without a text included. The server does not do this; see
\* BuildTranscript.
BuildTranscriptAll(m) ==
  [i \in 1 .. Len(m) |-> << Upper(m[i].role), m[i].content >>]

\* buildTranscriptFromMessages(messages.filter(m => m.role !== 'system')):
\* one line `ROLE: content` per message whose content is a string, in
\* order; the lines are joined by newlines.
BuildTranscript(m) ==
  LET kept == SelectSeq(NonSystem(m), HasText)
  IN [i \in 1 .. Len(kept) |-> << Upper(kept[i].role), kept[i].content >>]

\* What the completion may answer, as the pieces of its text: the text of a
\* JSON object, the literals false and null, a brace-delimited text that is
\* not JSON (`{name: x}`), and prose without braces.
Braced == {"object", "broken"}
Contents ==
  { << >>, << "object" >>, << "false" >>, << "null" >>, << "broken" >>,
    << "prose" >>, << "prose", "object" >>, << "object", "prose" >>,
    << "prose", "broken" >>, << "object", "object" >> }

\* JSON.parse(text) returns (does not throw): the text is one JSON value.
Parses(c) == Len(c) = 1 /\ c[1] \in {"object", "false", "null"}
\* The value that JSON.parse returns for the request numbered n.
Parsed(c, n) ==
  CASE c[1] = "object" -> JsonObject(n)
    [] c[1] = "false" -> JsonFalse
    [] OTHER -> JsonNull

\* content.match(/\{[\s\S]*\}$/): the text ends with a closing brace; the
\* match runs from its first opening brace to its end.
Matches(c) == Len(c) > 0 /\ c[Len(c)] \in Braced
Match(c) ==
  LET i == CHOOSE k \in 1 .. Len(c) :
             c[k] \in Braced /\ \A j \in 1 .. (k - 1) : c[j] \notin Braced
  IN SubSeq(c, i, Len(c))

\* app.post('/api/conversation/:sessionId/analyze') up to its select: 500
\* without Supabase.
PostAnalyze(r, sid) ==
  /\ variant = "lazy"
  /\ Free(r)
  /\ started' = started + 1
  /\ used' = used \cup {sid}
  /\ LET q == Begin("analyze", sid)
     IN Commit(conversations, heap,
               [req EXCEPT ![r] = IF supabase
                                  THEN [q EXCEPT !.pc = "analyzeFetch"]
                                  ELSE Respond(q, 500)])
  /\ UNCHANGED << variant, supabase, clock, page, dash, leads, store, storeFaults,
                  completionFaults, fresh, gone >>

\* Supabase answers the select of the analyze handler: 500 on an error;
\* else `data?.messages || conversations[sessionId]?.messages || []`, 404
\* when that is empty, else the transcript is built and the completion is
\* called.
AnalyzeSelect(r, ok) ==
  /\ req[r].pc = "analyzeFetch"
  /\ ~ok => storeFaults < MaxStoreFaults
  /\ storeFaults' = IF ok THEN storeFaults ELSE storeFaults + 1
  /\ LET q == req[r]
         messages ==
           IF ~store[q.sid].absent THEN store[q.sid].messages
           ELSE IF conversations[q.sid] # NoObj
                THEN heap[conversations[q.sid]].messages
                ELSE NoMsgs
     IN Commit(conversations, heap,
               [req EXCEPT ![r] =
                  IF ~ok THEN [Respond(q, 500) EXCEPT !.err = "store"]
                  ELSE IF Len(messages) = 0 THEN Respond(q, 404)
                  ELSE [q EXCEPT !.pc = "analyzeCompletion",
                                 !.transcript = BuildTranscript(messages),
                                 !.called = TRUE]])
  /\ UNCHANGED << variant, supabase, clock, page, dash, leads, store, started, completionFaults,
                  used, fresh, gone >>

\* OpenAI answers the analyze handler with `content`: JSON.parse, else
\* JSON.parse of the match of /\{[\s\S]*\}$/ (a throw there reaches the
\* outer catch: 500 without the text), else 500 with `raw: content`. With a
\* value, saveAnalysis builds its payload and awaits the update.
AnalyzeCompletion(r, content) ==
  /\ req[r].pc = "analyzeCompletion"
  /\ LET q == [req[r] EXCEPT !.transcript = NoMsgs]
         save(v) == [q EXCEPT !.pc = "analyzeSave", !.analysis = v,
                              !.analyzedAt = Timestamp(started)]
         fail == [Respond(q, 500) EXCEPT !.err = "parse", !.content = content]
     IN Commit(conversations, heap,
               [req EXCEPT ![r] =
                  IF Parses(content) THEN save(Parsed(content, q.n))
                  ELSE IF Matches(content)
                       THEN IF Parses(Match(content))
                            THEN save(Parsed(Match(content), q.n))
                            ELSE fail
                       ELSE [fail EXCEPT !.hasRaw = TRUE, !.raw = content]])
  /\ UNCHANGED << variant, supabase, clock, page, dash, leads, store, started, storeFaults,
                  completionFaults, used, fresh, gone >>

\* The OpenAI call of the analyze handler throws: the outer catch answers 500.
AnalyzeCompletionFail(r) ==
  /\ req[r].pc = "analyzeCompletion"
  /\ completionFaults < MaxCompletionFaults
  /\ completionFaults' = completionFaults + 1
  /\ Commit(conversations, heap,
            [req EXCEPT ![r] =
               [Respond(req[r], 500) EXCEPT !.err = "completion",
                                            !.transcript = NoMsgs]])
  /\ UNCHANGED << variant, supabase, clock, page, dash, leads, store, started, storeFaults,
                  used, fresh, gone >>

\* Supabase answers the update of saveAnalysis (an update filtered by
\* conversation_id: it changes the row if there is one); an error is logged.
\* The handler answers 200 with the analysis either way.
SaveAnalysis(r, ok) ==
  /\ req[r].pc = "analyzeSave"
  /\ ~ok => storeFaults < MaxStoreFaults
  /\ storeFaults' = IF ok THEN storeFaults ELSE storeFaults + 1
  /\ LET q == req[r]
         done == ok /\ ~store[q.sid].absent
     IN /\ leads' = IF done
                    THEN [leads EXCEPT ![q.sid] = Lead(q.analysis, q.analyzedAt)]
                    ELSE leads
        /\ Commit(conversations, heap,
                  [req EXCEPT ![r] =
                     [Respond(q, 200) EXCEPT !.analyzedAt = JsonNull,
                                             !.wrote = done,
                                             !.err = IF ok THEN q.err ELSE "store"]])
  /\ UNCHANGED << variant, supabase, clock, page, dash, store, started, completionFaults,
                  used, fresh, gone >>

\* app.get('/api/conversation/:sessionId/analysis') up to its select:
\* without Supabase it answers 200 with analysis null.
GetAnalysis(r, sid) ==
  /\ variant = "lazy"
  /\ Free(r)
  /\ started' = started + 1
  /\ used' = used \cup {sid}
  /\ LET q == Begin("analysis", sid)
     IN Commit(conversations, heap,
               [req EXCEPT ![r] = IF supabase
                                  THEN [q EXCEPT !.pc = "analysisFetch"]
                                  ELSE Respond(q, 200)])
  /\ UNCHANGED << variant, supabase, clock, page, dash, leads, store, storeFaults,
                  completionFaults, fresh, gone >>

\* Supabase answers the select of the analysis handler: 500 on an error,
\* else `data?.lead_analysic || null` and `data?.lead_analyzed_at || null`.
GetAnalysisSelect(r, ok) ==
  /\ req[r].pc = "analysisFetch"
  /\ ~ok => storeFaults < MaxStoreFaults
  /\ storeFaults' = IF ok THEN storeFaults ELSE storeFaults + 1
  /\ LET q == req[r]
         data == IF store[q.sid].absent THEN NoLead ELSE leads[q.sid]
     IN Commit(conversations, heap,
               [req EXCEPT ![r] =
                  IF ok
                  THEN [Respond(q, 200) EXCEPT
                          !.analysis = OrNull(data.lead_analysic),
                          !.analyzedAt = OrNull(data.lead_analyzed_at)]
                  ELSE [Respond(q, 500) EXCEPT !.err = "store"]])
  /\ UNCHANGED << variant, supabase, clock, page, dash, leads, store, started, completionFaults,
                  used, fresh, gone >>

\* A row that an earlier run of the server left may have been analyzed then.
PriorLead == Lead(JsonObject(0), Timestamp(0))

\* The lazy server, whose table may hold an analyzed row when it starts.
AnalysisInit ==
  /\ variant = "lazy"
  /\ supabase \in BOOLEAN
  /\ conversations = [s \in SessionIds |-> NoObj]
  /\ heap = [o \in ObjIds |-> NoConv]
  /\ \E h \in {NoMsgs} \cup StoredHistories :
       /\ h # NoMsgs => supabase
       /\ store = [s \in SessionIds |->
                     IF s = "s1" /\ h # NoMsgs THEN Row(h, 0) ELSE NoRow]
       /\ used = IF h # NoMsgs THEN {"s1"} ELSE {}
       /\ \E l \in {NoLead, PriorLead} :
            /\ l # NoLead => h # NoMsgs
            /\ leads = [s \in SessionIds |-> IF s = "s1" THEN l ELSE NoLead]
  /\ req = [r \in Req |-> IdleReq]
  /\ started = 0
  /\ storeFaults = 0
  /\ completionFaults = 0
  /\ fresh = {}
  /\ gone = [s \in SessionIds |-> {}]
  /\ clock = 0
  /\ keys = << >>
  /\ page = NoPage
  /\ dash = NoPage

\* Every handler of the lazy server.
AnalysisNext ==
  \E r \in Req :
    \/ \E sid \in Targets : PostSession(r, sid)
    \/ \E sid \in Targets : PostChat(r, sid)
    \/ PostChatInvalid(r)
    \/ \E sid \in Targets : GetConversation(r, sid)
    \/ \E sid \in Targets : DeleteConversation(r, sid)
    \/ \E error \in BOOLEAN : SupabaseSelect(r, ~error)
    \/ InitResume(r)
    \/ CompletionOk(r)
    \/ \E code \in ErrorCodes : CompletionFail(r, code)
    \/ \E error \in BOOLEAN : SupabasePersist(r, ~error)
    \/ \E error \in BOOLEAN : SupabaseDelete(r, ~error)
    \/ \E sid \in Targets : PostAnalyze(r, sid)
    \/ \E error \in BOOLEAN : AnalyzeSelect(r, ~error)
    \/ \E content \in Contents : AnalyzeCompletion(r, content)
    \/ AnalyzeCompletionFail(r)
    \/ \E error \in BOOLEAN : SaveAnalysis(r, ~error)
    \/ \E sid \in Targets : GetAnalysis(r, sid)
    \/ \E error \in BOOLEAN : GetAnalysisSelect(r, ~error)

AnalysisSpec == AnalysisInit /\ [][AnalysisNext]_vars


\* ------------------------------------------------------------- transcripts
\* The messages that a row may hold after its system message: user and
\* assistant messages with a text, and a user message whose `message` was
\* not a string (line 210 pushes whatever the body carries).
RowMessages == { UserMsg(1), AssistantMsg(1), UserMsg(NoText) }
RowTails == UNION { [1 .. k -> RowMessages] : k \in 0 .. MaxTranscriptLen }

\* The lazy server with Supabase, whose table holds a row for "s1" when it
\* starts.
TranscriptInit ==
  /\ variant = "lazy"
  /\ supabase = TRUE
  /\ conversations = [s \in SessionIds |-> NoObj]
  /\ heap = [o \in ObjIds |-> NoConv]
  /\ \E t \in RowTails :
       store = [s \in SessionIds |->
                  IF s = "s1" THEN Row(<< SystemMsg >> \o t, 0) ELSE NoRow]
  /\ used = {"s1"}
  /\ leads = [s \in SessionIds |-> NoLead]
  /\ req = [r \in Req |-> IdleReq]
  /\ started = 0
  /\ storeFaults = 0
  /\ completionFaults = 0
  /\ fresh = {}
  /\ gone = [s \in SessionIds |-> {}]
  /\ clock = 0
  /\ keys = << >>
  /\ page = NoPage
  /\ dash = NoPage

\* The analyze handler.
TranscriptNext ==
  \E r \in Req :
    \/ \E sid \in Targets : PostAnalyze(r, sid)
    \/ \E error \in BOOLEAN : AnalyzeSelect(r, ~error)
    \/ \E content \in Contents : AnalyzeCompletion(r, content)
    \/ AnalyzeCompletionFail(r)
    \/ \E error \in BOOLEAN : SaveAnalysis(r, ~error)

TranscriptSpec == TranscriptInit /\ [][TranscriptNext]_vars

\* ---------------------------------------------------- session list, time
\* Time passes between two steps of the handlers.
Tick ==
  /\ clock < MaxClock
  /\ clock' = clock + 1
  /\ UNCHANGED << variant, supabase, conversations, heap, store, req, started,
                  storeFaults, completionFaults, used, fresh, gone, leads, keys,
                  page, dash >>

\* (messages?.length || 1) - 1; the cache-only server has
\* messages.length - 1, which differs for no conversation it holds.
MessageCount(m) == (IF Len(m) = 0 THEN 1 ELSE Len(m)) - 1

\* The entry of a cached conversation in the list.
CachedEntry(sid) ==
  LET c == heap[conversations[sid]]
  IN [sessionId |-> sid, messageCount |-> MessageCount(c.messages),
      createdAt |-> c.createdAt, lastActivity |-> c.lastActivity]

\* The entry of a row in the list: lastActivity is created_at as well.
RowEntry(sid) ==
  [sessionId |-> sid, messageCount |-> MessageCount(store[sid].messages),
   createdAt |-> store[sid].created_at, lastActivity |-> store[sid].created_at]

\* app.get('/api/sessions') up to its await: without Supabase the entries
\* of Object.keys(conversations), in that order; with it, the select.
GetSessions(r) ==
  /\ Free(r)
  /\ started' = started + 1
  /\ LET q == [IdleReq EXCEPT !.kind = "list", !.n = FirstContent + started,
                              !.now = clock]
     IN Commit(conversations, heap,
               [req EXCEPT ![r] =
                  IF supabase
                  THEN [q EXCEPT !.pc = "list"]
                  ELSE [Respond(q, 200) EXCEPT
                          !.sessions = [i \in 1 .. Len(keys) |->
                                          CachedEntry(keys[i])]]])
  /\ UNCHANGED << variant, supabase, clock, page, dash, leads, store, storeFaults,
                  completionFaults, used, fresh, gone >>

\* .order('created_at', { ascending: false }): the ids of the rows, newest
\* first; rows of the same created_at come in any order.
RowOrders ==
  LET ids == { s \in SessionIds : ~store[s].absent }
  IN { f \in [1 .. Cardinality(ids) -> ids] :
         /\ \A i, j \in DOMAIN f : i # j => f[i] # f[j]
         /\ \A i, j \in DOMAIN f :
              i < j => store[f[i]].created_at >= store[f[j]].created_at }

\* Supabase answers the select of the list: 500 on an error, else one entry
\* per row, in the order of the answer.
SupabaseList(r, ok, order) ==
  /\ req[r].pc = "list"
  /\ ~ok => storeFaults < MaxStoreFaults
  /\ storeFaults' = IF ok THEN storeFaults ELSE storeFaults + 1
  /\ Commit(conversations, heap,
            [req EXCEPT ![r] =
               IF ok
               THEN [Respond(req[r], 200) EXCEPT
                       !.sessions = [i \in DOMAIN order |-> RowEntry(order[i])]]
               ELSE [Respond(req[r], 500) EXCEPT !.err = "store"]])
  /\ UNCHANGED << variant, supabase, clock, page, dash, leads, store, started,
                  completionFaults, used, fresh, gone >>

\* The session handlers of the three servers, the list and the clock.
TimeNext ==
  \/ Next
  \/ Tick
  \/ \E r \in Req :
       \/ GetSessions(r)
       \/ \E error \in BOOLEAN : \E order \in RowOrders :
            SupabaseList(r, ~error, order)

TimeSpec == Init /\ [][TimeNext]_vars

\* --------------------------------------------------------------- chat page
\* The Chatbot object of the chat page and what it awaits. Its backend is
\* seen through the answers of fetch: ok, not ok, or a rejected promise.

\* The backend of a page is not part of these runs: the server holds what it
\* holds when its process starts, without a table.
BackendIdle ==
  /\ variant = "lazy"
  /\ supabase = FALSE
  /\ conversations = [s \in SessionIds |-> NoObj]
  /\ heap = [o \in ObjIds |-> NoConv]
  /\ store = [s \in SessionIds |-> NoRow]
  /\ leads = [s \in SessionIds |-> NoLead]
  /\ req = [r \in Req |-> IdleReq]
  /\ started = 0
  /\ storeFaults = 0
  /\ completionFaults = 0
  /\ used = {}
  /\ fresh = {}
  /\ gone = [s \in SessionIds |-> {}]
  /\ clock = 0
  /\ keys = << >>

\* this.sessionId = null
NullId == "null"
\* 'Sorry, I encountered an error. Please try again.'; the texts of the
\* visitor are 1, 2, ...
SorryText == 0
\* messageInput.value.trim() is empty
NoInput == 0

\* new Chatbot() up to the await of init(): the listeners are attached and
\* the fetch of initializeSession is out.
ChatbotInit ==
  /\ BackendIdle
  /\ dash = NoPage
  /\ page = [open |-> TRUE,
             sessionId |-> NullId,
             session |-> "pending",  \* the fetch of initializeSession
             focused |-> FALSE,      \* messageInput.focus() at the end of init()
             input |-> NoInput,      \* messageInput.value
             typing |-> FALSE,       \* typingIndicator is shown
             chatMessages |-> << >>, \* the message elements of the page
             calls |-> << >>]        \* the fetches of sendToBackend

\* A step of the page alone.
ChatbotStep(p) ==
  /\ page' = p
  /\ UNCHANGED << variant, supabase, conversations, heap, store, req, started,
                  storeFaults, completionFaults, used, fresh, gone, leads,
                  clock, keys, dash >>

\* initializeSession after its fetch: with response.ok the id of the
\* answer is assigned; otherwise the error is logged. Either way init() goes
\* on to messageInput.focus().
SessionAnswer(ok) ==
  /\ page.session = "pending"
  /\ ChatbotStep([page EXCEPT
                    !.sessionId = IF ok THEN "s1" ELSE page.sessionId,
                    !.session = IF ok THEN "assigned" ELSE "failed",
                    !.focused = TRUE])

\* The visitor types a text (or picks a suggestion).
TypeMessage ==
  /\ page.input = NoInput
  /\ Len(page.calls) < MaxSends
  /\ ChatbotStep([page EXCEPT !.input = Len(page.calls) + 1])

\* sendMessage() up to its await, on a click or on Enter: nothing for an
\* empty text; else the text is shown, the input is cleared, the indicator
\* is shown and sendToBackend posts { message, sessionId: this.sessionId }.
SendMessage ==
  /\ page.input # NoInput
  /\ ChatbotStep([page EXCEPT
                    !.chatMessages = Append(@, [sender |-> "user",
                                                text |-> page.input]),
                    !.input = NoInput,
                    !.typing = TRUE,
                    !.calls = Append(@, [message |-> page.input,
                                         sessionId |-> page.sessionId,
                                         state |-> "sent"])])

\* sendToBackend gets its answer: the reply is shown, or, for an answer
\* that is not ok or a rejected fetch, the apology. The backend answers 400
\* to a request without a session id.
ChatAnswer(i, ok) ==
  /\ i \in DOMAIN page.calls
  /\ page.calls[i].state = "sent"
  /\ ok => page.calls[i].sessionId # NullId
  /\ ChatbotStep([page EXCEPT
                    !.typing = FALSE,
                    !.chatMessages =
                       Append(@, [sender |-> "bot",
                                  text |-> IF ok THEN page.calls[i].message
                                           ELSE SorryText]),
                    !.calls[i].state = IF ok THEN "ok" ELSE "failed"])

ChatbotNext ==
  \/ \E error \in BOOLEAN : SessionAnswer(~error)
  \/ TypeMessage
  \/ SendMessage
  \/ \E i \in 1 .. MaxSends : \E error \in BOOLEAN : ChatAnswer(i, ~error)

ChatbotSpec == ChatbotInit /\ [][ChatbotNext]_vars

\* --------------------------------------------------------------- dashboard
\* The Dashboard object of the dashboard page and what it awaits. Its
\* backend is seen through the answers of fetch; `backend` is the set of
\* sessions it holds, each with one message. handleAnalyze writes the
\* element `analysis` alone, which is not part of the page modelled here.

\* The message of a session, as a conversation answer carries it.
MessageOf(sid) == [session |-> sid]

\* searchInput.value: empty, or a text that only the id "s1" includes.
Queries == {"", "s1"}
\* (s.sessionId || '').toLowerCase().includes(q)
Includes(sid, q) == q = "" \/ q = sid

\* The ids of a sequence that the query q keeps, in order.
RECURSIVE Filtered(_, _)
Filtered(ids, q) ==
  IF ids = << >> THEN << >>
  ELSE IF Includes(ids[1], q) THEN << ids[1] >> \o Filtered(Tail(ids), q)
       ELSE Filtered(Tail(ids), q)

\* renderSessions(): one item per session that the query keeps; the item of
\* the current session is active.
RenderSessions(d) ==
  LET kept == Filtered(d.sessions, d.query)
  IN [d EXCEPT !.sessionsEl =
        [note |-> "",
         items |-> [i \in 1 .. Len(kept) |->
                      [sessionId |-> kept[i],
                       active |-> (d.currentSessionId = kept[i])]]]]

\* loadSessions() up to its await.
LoadSessions(d) ==
  [d EXCEPT !.sessions = << >>,
            !.sessionsEl = [note |-> "Loading", items |-> << >>],
            !.fetches = Append(@, [kind |-> "sessions", sid |-> NullId])]

\* loadConversation(sessionId) up to its await: the header names the
\* session, the pane is emptied, the fetch goes out.
LoadConversation(d, sid) ==
  [d EXCEPT !.selectedSessionEl = sid,
            !.selectedMetaEl = "Loading",
            !.messagesEl = << >>,
            !.fetches = Append(@, [kind |-> "conversation", sid |-> sid])]

\* new Dashboard(): attachEvents() and loadSessions() up to its await.
DashboardInit ==
  /\ BackendIdle
  /\ page = NoPage
  /\ dash = LoadSessions(
       [open |-> TRUE,
        backend |-> SessionIds,
        currentSessionId |-> NullId,
        sessions |-> << >>,
        sessionsEl |-> [note |-> "", items |-> << >>],
        selectedSessionEl |-> NullId,
        selectedMetaEl |-> "",
        messagesEl |-> << >>,
        query |-> "",
        fetches |-> << >>,
        clicks |-> 0])

\* A step of the dashboard alone.
DashboardStep(d) ==
  /\ dash' = d
  /\ UNCHANGED << variant, supabase, conversations, heap, store, req, started,
                  storeFaults, completionFaults, used, fresh, gone, leads,
                  clock, keys, page >>

\* s without its i-th element.
Without(s, i) == SubSeq(s, 1, i - 1) \o SubSeq(s, i + 1, Len(s))

\* The sessions of the backend as /api/sessions lists them.
BackendList(d) ==
  LET Held(sid) == sid \in d.backend
  IN SelectSeq(<< "s2", "s1" >>, Held)

Clicked(d) == [d EXCEPT !.clicks = @ + 1]

\* The click listener of a session item: the session becomes the current
\* one, the list is rendered, the conversation is loaded.
ClickSession(k) ==
  /\ dash.clicks < MaxClicks
  /\ k \in DOMAIN dash.sessionsEl.items
  /\ LET sid == dash.sessionsEl.items[k].sessionId
         d == [Clicked(dash) EXCEPT !.currentSessionId = sid]
     IN DashboardStep(LoadConversation(RenderSessions(d), sid))

\* The click listener of refreshBtn.
ClickRefresh ==
  /\ dash.clicks < MaxClicks
  /\ DashboardStep(IF dash.currentSessionId # NullId
                   THEN LoadConversation(Clicked(dash), dash.currentSessionId)
                   ELSE LoadSessions(Clicked(dash)))

\* handleDelete() up to its await: nothing without a current session or
\* without the confirmation; else the DELETE of the current session.
ClickDelete(confirmed) ==
  /\ dash.clicks < MaxClicks
  /\ DashboardStep(
       IF dash.currentSessionId # NullId /\ confirmed
       THEN [Clicked(dash) EXCEPT
               !.fetches = Append(@, [kind |-> "delete",
                                      sid |-> dash.currentSessionId])]
       ELSE Clicked(dash))

\* The input listener of searchInput: filterSessions().
FilterSessions(q) ==
  /\ dash.clicks < MaxClicks
  /\ q # dash.query
  /\ DashboardStep(RenderSessions([Clicked(dash) EXCEPT !.query = q]))

\* loadSessions() after its fetch: the sessions are kept and rendered, or
\* the list shows the failure.
SessionsAnswer(i, ok) ==
  /\ i \in DOMAIN dash.fetches
  /\ dash.fetches[i].kind = "sessions"
  /\ LET d == [dash EXCEPT !.fetches = Without(@, i)]
     IN DashboardStep(
          IF ok THEN RenderSessions([d EXCEPT !.sessions = BackendList(dash)])
          ELSE [d EXCEPT !.sessionsEl = [note |-> "Failed", items |-> << >>]])

\* loadConversation(sessionId) after its fetch: the header shows the dates
\* of the answer and every message of the answer is appended to the pane,
\* or the header shows the failure.
ConversationAnswer(i, ok) ==
  /\ i \in DOMAIN dash.fetches
  /\ dash.fetches[i].kind = "conversation"
  /\ LET sid == dash.fetches[i].sid
         d == [dash EXCEPT !.fetches = Without(@, i)]
         msgs == IF sid \in dash.backend THEN << MessageOf(sid) >> ELSE << >>
     IN DashboardStep(
          IF ok THEN [d EXCEPT !.selectedMetaEl = "Created",
                               !.messagesEl = @ \o msgs]
          ELSE [d EXCEPT !.selectedMetaEl = "Failed"])

\* handleDelete() after its fetch: on success the backend has dropped the
\* session, the selection and the pane are cleared and the sessions are
\* loaded; else an alert.
DeleteAnswer(i, ok) ==
  /\ i \in DOMAIN dash.fetches
  /\ dash.fetches[i].kind = "delete"
  /\ LET d == [dash EXCEPT !.fetches = Without(@, i)]
     IN DashboardStep(
          IF ok
          THEN LoadSessions([d EXCEPT
                               !.backend = @ \ {dash.fetches[i].sid},
                               !.currentSessionId = NullId,
                               !.selectedSessionEl = NullId,
                               !.selectedMetaEl = "",
                               !.messagesEl = << >>])
          ELSE d)

DashboardNext ==
  \/ \E k \in 1 .. Cardinality(SessionIds) : ClickSession(k)
  \/ ClickRefresh
  \/ \E confirmed \in BOOLEAN : ClickDelete(confirmed)
  \/ \E q \in Queries : FilterSessions(q)
  \/ \E i \in 1 .. MaxClicks + 1 : \E error \in BOOLEAN :
       \/ SessionsAnswer(i, ~error)
       \/ ConversationAnswer(i, ~error)
       \/ DeleteAnswer(i, ~error)

DashboardSpec == DashboardInit /\ [][DashboardNext]_vars

\* ------------------------------------------------------------- properties
Cached(s) == conversations[s] # NoObj
CachedMessages(s) == heap[conversations[s]].messages
Stored(s) == ~store[s].absent
Range(m) == { m[i] : i \in 1 .. Len(m) }
SystemFirst(m) == Len(m) > 0 /\ m[1].role = "system"

\* The step in which the chat handler of r gets its completion and appends
\* the reply.
ReplyStep(r) ==
  /\ req[r].pc = "completion"
  /\ req'[r].pc \in {"persist", "done"}
  /\ req'[r].err # "completion"

\* The step in which the OpenAI call of the chat handler of r fails.
FailStep(r) == req[r].pc = "completion" /\ req'[r].err = "completion"

\* The window of the specification: the first message and the newest
\* HistoryLimit - 1 of the others.
WindowOf(m) ==
  IF Len(m) <= HistoryLimit THEN m
  ELSE << m[1] >> \o SubSeq(m, Len(m) - HistoryLimit + 2, Len(m))

\* C1: in the cache and in the table, the first message of every session
\* has role system, whatever exchanges have run.
C1_SystemMessageFirst ==
  \A s \in SessionIds :
    /\ Cached(s) => SystemFirst(CachedMessages(s))
    /\ Stored(s) => SystemFirst(store[s].messages)

\* C2: when a reply is appended, the session keeps messages[0] and the
\* newest 19 of the other messages, in their order (and everything when
\* there are at most 20).
C2_TrimKeepsFirstAndNewest ==
  [][\A r \in Req :
       (ReplyStep(r) /\ conversations'[req[r].sid] = req[r].conv) =>
         heap'[req[r].conv].messages =
           WindowOf(Append(heap[req[r].conv].messages, AssistantMsg(req[r].n)))]_vars

\* No call to Supabase or to OpenAI has failed so far.
NoFault == storeFaults = 0 /\ completionFaults = 0

\* C3: when a chat exchange completes (reply appended, window applied), the
\* cached messages of its session are at most 20, and no row ever holds
\* more than 20. Stated for the runs in which no call fails, where it is
\* violated already.
C3_AtMostTwentyAfterExchange ==
  [][NoFault' =>
       /\ \A r \in Req :
            (ReplyStep(r) /\ conversations'[req[r].sid] # NoObj) =>
              Len(heap'[conversations'[req[r].sid]].messages) <= HistoryLimit
       /\ \A s \in SessionIds :
            ~store'[s].absent => Len(store'[s].messages) <= HistoryLimit]_vars

\* C4: in every state, also while a chat exchange is in progress, no
\* session has more than 20 messages, cached or stored.
C4_NeverMoreThanTwenty ==
  \A s \in SessionIds :
    /\ Cached(s) => Len(CachedMessages(s)) <= HistoryLimit
    /\ Stored(s) => Len(store[s].messages) <= HistoryLimit

\* C5: the message list of every completion call has at most 20 messages.
C5_PayloadAtMostTwenty == \A r \in Req : req[r].sent <= HistoryLimit

C7_DeleteIsTerminal ==
  NoFault =>
  /\ \A s \in fresh : History(s) \cap gone[s] = {}
  /\ \A r \in Req :
       (/\ req[r].afterDelete
        /\ req[r].kind \in {"chat", "history"}
        /\ req[r].pc \in {"completion", "persist", "done"}) =>
         /\ req[r].initLen = 1
         /\ req[r].initRole = "system"
         /\ req[r].kind = "history" => req[r].status = 200 /\ req[r].body = << >>

\* C8: a delete that meets no Supabase error answers 200, whether or not
\* the session exists.
C8_DeleteIdempotent ==
  \A r \in Req :
    (req[r].pc = "done" /\ req[r].kind = "delete" /\ req[r].err # "store") =>
      req[r].status = 200

\* C9: when no request is in flight and no Supabase call has failed, the
\* cached messages of a stored session are the stored ones.
C9_CacheEqualsStoreAtRest ==
  ((\A r \in Req : ~Busy(r)) /\ storeFaults = 0) =>
    \A s \in SessionIds :
      (Cached(s) /\ Stored(s)) => CachedMessages(s) = store[s].messages

\* C10: when the only two requests so far are chat requests for the same
\* session and both have answered 200, the session is cached and, no
\* window having been applied, holds the user message and the reply of both.
\* Stated for the runs in which no call fails, where it is violated already.
C10_NoLostAppend ==
  LET a == req["r1"]
      b == req["r2"]
  IN (/\ NoFault
      /\ started = 2
      /\ a.pc = "done" /\ a.kind = "chat" /\ a.status = 200
      /\ b.pc = "done" /\ b.kind = "chat" /\ b.status = 200
      /\ a.sid = b.sid
      /\ Cached(a.sid) => Len(CachedMessages(a.sid)) < HistoryLimit) =>
       /\ Cached(a.sid)
       /\ { UserMsg(a.n), AssistantMsg(a.n), UserMsg(b.n), AssistantMsg(b.n) }
            \subseteq Range(CachedMessages(a.sid))

\* The step in which a request is accepted by slot r.
AcceptStep(r) ==
  /\ started' = started + 1
  /\ req'[r] # req[r]
  /\ req'[r].sid \in SessionIds

\* The step in which Supabase answers the write of persistConversation of r
\* without an error.
PersistedStep(r) ==
  req[r].pc = "persist" /\ req'[r].pc = "done" /\ storeFaults' = storeFaults

\* The step in which Supabase answers the write of persistConversation of r
\* with an error.
PersistFailStep(r) ==
  req[r].pc = "persist" /\ req'[r].pc # "persist" /\ storeFaults' = storeFaults + 1

\* The step in which Supabase answers the select of initializeConversation
\* of r without an error.
ReadStep(r) ==
  req[r].pc = "fetch" /\ req'[r].pc = "fetched" /\ storeFaults' = storeFaults

\* The step in which initializeConversation of r caches the row it has read.
CacheRowStep(r) ==
  req[r].pc = "fetched" /\ req'[r].pc # "fetched" /\ ~req[r].data.absent

\* The conversation objects that are still referred to are as they were.
ObjectsUnchanged ==
  \A o \in ObjIds : Referenced(o, conversations', req') => heap'[o] = heap[o]

\* C11: a persistConversation that meets no error leaves a row holding
\* exactly the messages it sent; a select returns the row's messages as they
\* are; and initializeConversation caches, for an id that was not cached,
\* the messages it has read, in their order (the chat handler then pushes
\* its user message, the history handler answers them without the system
\* message).
C11_PersistFetchRoundTrip ==
  [][\A r \in Req :
       /\ PersistedStep(r) =>
            /\ ~store'[req[r].sid].absent
            /\ store'[req[r].sid].messages = req[r].snap
       /\ ReadStep(r) => req'[r].data = store[req[r].sid]
       /\ CacheRowStep(r) =>
            /\ conversations'[req[r].sid] # NoObj
            /\ heap'[conversations'[req[r].sid]].messages =
                 IF req[r].kind = "chat"
                 THEN Append(req[r].data.messages, UserMsg(req[r].n))
                 ELSE req[r].data.messages
            /\ req[r].kind = "history" =>
                 req'[r].body = NonSystem(req[r].data.messages)]_vars

\* C12: a row comes into being only in the step in which the write of
\* persistConversation is answered, that is after a reply was appended;
\* creating a conversation writes no row.
C12_LazyCreation ==
  [][\A s \in SessionIds :
       (store[s].absent /\ ~store'[s].absent) =>
         \E r \in Req :
           req[r].pc = "persist" /\ req[r].sid = s /\ req'[r].pc = "done"]_vars

\* What initializeConversation hands to the handler of r in this step is a
\* conversation of the one system message, cached under the id, and the
\* handler goes on (no error response).
CreatedInStep(r) ==
  /\ req'[r].initLen = 1
  /\ req'[r].initRole = "system"
  /\ conversations'[req'[r].sid] # NoObj
  /\ heap'[conversations'[req'[r].sid]].messages =
       IF req'[r].kind = "chat"
       THEN << SystemMsg, UserMsg(req'[r].n) >>
       ELSE << SystemMsg >>
  /\ IF req'[r].kind = "chat"
     THEN req'[r].pc = "completion"
     ELSE req'[r].pc = "done" /\ req'[r].status = 200

\* C13: initializeConversation for an id that is neither cached nor stored
\* (at its entry when there is no Supabase, when it resumes after the select
\* or the insert otherwise) yields a cached conversation of exactly the
\* system message and does not fail; for a cached id it returns the cached
\* conversation, and leaves the cache, the table and every conversation as
\* they are (the chat handler then pushes its user message).
C13_GetOrCreate ==
  [][\A r \in Req :
       /\ (/\ AcceptStep(r)
           /\ req'[r].kind \in {"session", "chat", "history"}
           /\ conversations[req'[r].sid] # NoObj) =>
            LET o == conversations[req'[r].sid]
            IN /\ conversations' = conversations
               /\ store' = store
               /\ req'[r].initLen = Len(heap[o].messages)
               /\ req'[r].initRole = FirstRole(heap[o].messages)
               /\ heap'[o].messages =
                    IF req'[r].kind = "chat"
                    THEN Append(heap[o].messages, UserMsg(req'[r].n))
                    ELSE heap[o].messages
               /\ req'[r].kind = "chat" => req'[r].conv = o
               /\ req'[r].kind = "history" =>
                    req'[r].body = NonSystem(heap[o].messages)
               /\ \A p \in ObjIds \ {o} :
                    Referenced(p, conversations', req') => heap'[p] = heap[p]
       /\ (/\ AcceptStep(r)
           /\ req'[r].kind \in {"session", "chat", "history"}
           /\ ~(variant = "memory" /\ req'[r].kind = "history")
           /\ conversations[req'[r].sid] = NoObj
           /\ ~supabase) => CreatedInStep(r)
       /\ (/\ req[r].pc = "fetched"
           /\ req'[r].pc # "fetched"
           /\ req[r].data.absent
           /\ variant # "immediate"
           /\ conversations[req[r].sid] = NoObj
           /\ store[req[r].sid].absent) => CreatedInStep(r)
       /\ (/\ req[r].pc = "insert"
           /\ req'[r].pc # "insert"
           /\ conversations[req[r].sid] = NoObj
           /\ store[req[r].sid].absent) => CreatedInStep(r)]_vars

\* C13 witness: a session request has created a conversation for an id
\* that was neither cached nor stored, and a later history request for the
\* id was served the cached conversation, which is still the system message.
C13_Witness ==
  \E a, b \in Req :
    /\ a # b /\ req[a].sid = req[b].sid
    /\ req[a].kind = "session" /\ req[a].pc = "done" /\ req[a].status = 200
    /\ req[a].initLen = 1 /\ req[a].initRole = "system"
    /\ req[b].kind = "history" /\ req[b].pc = "done" /\ req[b].status = 200
    /\ req[b].n > req[a].n
    /\ req[b].initLen = 1 /\ req[b].body = << >>
    /\ Cached(req[a].sid) /\ CachedMessages(req[a].sid) = << SystemMsg >>

\* C14: when the write of persistConversation fails, the chat request still
\* answers 200; the step changes neither the cache nor any conversation
\* nor the table, so the conversation of the handler holds the user message
\* and the reply after it as before it, and so does the cached session when
\* it is that conversation.
C14_PersistFailureIsAbsorbed ==
  [][\A r \in Req :
       PersistFailStep(r) =>
         /\ req'[r].pc = "done"
         /\ req'[r].status = 200
         /\ conversations' = conversations
         /\ store' = store
         /\ ObjectsUnchanged
         /\ { UserMsg(req[r].n), AssistantMsg(req[r].n) }
              \subseteq Range(heap[req[r].conv].messages)
         /\ conversations[req[r].sid] = req[r].conv =>
              /\ conversations'[req[r].sid] = req[r].conv
              /\ { UserMsg(req[r].n), AssistantMsg(req[r].n) }
                   \subseteq Range(heap'[req[r].conv].messages)]_vars

\* C14 witness: a chat request has answered 200 although the write of its
\* row failed; the cached session holds its user message and the reply, the
\* table does not.
C14_Witness ==
  \E r \in Req :
    /\ req[r].kind = "chat" /\ req[r].pc = "done" /\ req[r].status = 200
    /\ req[r].err = "store" /\ storeFaults = 1
    /\ Cached(req[r].sid)
    /\ { UserMsg(req[r].n), AssistantMsg(req[r].n) }
         \subseteq Range(CachedMessages(req[r].sid))
    /\ Stored(req[r].sid) =>
         AssistantMsg(req[r].n) \notin Range(store[req[r].sid].messages)

\* The step in which the analyze handler of r gets its row without an error.
AnalyzeReadStep(r) ==
  /\ req[r].pc = "analyzeFetch"
  /\ req'[r].pc # "analyzeFetch"
  /\ storeFaults' = storeFaults

\* The step in which the analyze handler of r answers 200 with its analysis.
AnalyzeSucceedsStep(r) ==
  req[r].pc = "analyzeSave" /\ req'[r].pc = "done" /\ req'[r].status = 200

\* The step in which neither parse of the analyze handler of r gives a value.
ParseFailStep(r) == req[r].pc = "analyzeCompletion" /\ req'[r].err = "parse"

\* The step in which the analysis handler of r gets its row without an error.
GetAnalysisStep(r) ==
  /\ req[r].pc = "analysisFetch"
  /\ req'[r].pc = "done"
  /\ storeFaults' = storeFaults

\* C15: when the analyze handler goes on to the completion, the id has a
\* row and the transcript is built from the row's messages.
C15_TranscriptFromStore ==
  [][\A r \in Req :
       (AnalyzeReadStep(r) /\ req'[r].pc = "analyzeCompletion") =>
         /\ ~store[req[r].sid].absent
         /\ req'[r].transcript = BuildTranscript(store[req[r].sid].messages)]_vars

\* C16: when the analyze handler answers 200 with an analysis, the row of
\* the id holds that analysis and a timestamp. Stated for the runs in which
\* no call fails, where it is violated already.
C16_AnalysisIsStored ==
  [][\A r \in Req :
       (AnalyzeSucceedsStep(r) /\ NoFault') =>
         /\ ~store'[req[r].sid].absent
         /\ leads'[req[r].sid].lead_analysic = req'[r].analysis
         /\ leads'[req[r].sid].lead_analyzed_at # JsonNull]_vars

\* C17: in every row, lead_analyzed_at is set exactly when lead_analysic is
\* not null, and every answer of the analysis handler has analyzedAt set
\* exactly when its analysis is not null.
C17_AnalyzedAtIffAnalysis ==
  /\ \A s \in SessionIds :
       Stored(s) =>
         (leads[s].lead_analyzed_at # JsonNull <=> leads[s].lead_analysic # JsonNull)
  /\ \A r \in Req :
       (req[r].kind = "analysis" /\ req[r].pc = "done" /\ req[r].status = 200) =>
         (req[r].analyzedAt # JsonNull <=> req[r].analysis # JsonNull)

\* C18: when the content of the completion cannot be parsed, directly or
\* from its brace-delimited end, the analyze handler answers an error that
\* carries the content as `raw`, and nothing is written.
C18_MalformedCarriesRaw ==
  [][\A r \in Req :
       ParseFailStep(r) =>
         /\ req'[r].pc = "done"
         /\ req'[r].status = 500
         /\ req'[r].hasRaw
         /\ req'[r].raw = req'[r].content
         /\ ~req'[r].wrote
         /\ leads' = leads
         /\ store' = store]_vars

\* C19: when the table holds no messages for the id, the analyze handler
\* answers 404 without calling the completion and without writing.
C19_AnalyzeNotFound ==
  [][\A r \in Req :
       (AnalyzeReadStep(r) /\ store[req[r].sid].absent) =>
         /\ req'[r].pc = "done"
         /\ req'[r].status = 404
         /\ ~req'[r].called
         /\ ~req'[r].wrote
         /\ leads' = leads
         /\ store' = store]_vars

\* C20: the analysis handler answers the lead_analysic of the row, null
\* when there is no row or no analysis; it calls no completion and leaves
\* the cache, the conversations and the table as they are.
C20_GetAnalysisReadsOnly ==
  [][\A r \in Req :
       GetAnalysisStep(r) =>
         /\ req'[r].status = 200
         /\ req'[r].analysis =
              IF store[req[r].sid].absent THEN JsonNull
              ELSE leads[req[r].sid].lead_analysic
         /\ ~req'[r].called
         /\ conversations' = conversations
         /\ ObjectsUnchanged
         /\ store' = store
         /\ leads' = leads]_vars

\* The step in which slot r answers a request.
AnswerStep(r) == req'[r].pc = "done" /\ req'[r] # req[r]

\* C21: a chat request without a message or without a session id answers
\* 400 at once, and the step changes nothing: no cache entry, no
\* conversation, no row, no column, no completion call.
C21_ValidationChangesNothing ==
  [][\A r \in Req :
       (AnswerStep(r) /\ req'[r].status = 400) =>
         /\ ~Busy(r)
         /\ req'[r].kind = "chat"
         /\ conversations' = conversations
         /\ heap' = heap
         /\ store' = store
         /\ leads' = leads
         /\ used' = used
         /\ req'[r].calls = 0 /\ req'[r].sent = 0
         /\ ~req'[r].wrote]_vars

\* C21 witness: a chat request without its fields was answered 400 while a
\* session is cached and another chat request waits for its completion.
C21_Witness ==
  \E a, b \in Req :
    /\ req[a].pc = "done" /\ req[a].status = 400 /\ req[a].calls = 0
    /\ req[b].pc = "completion"
    /\ Cached(req[b].sid)

\* C22: the step in which the completion call of a chat request fails
\* answers 402 for insufficient_quota, 401 for invalid_api_key and 500 for
\* every other error, and ends the request; no chat request ever calls the
\* completion more than once.
C22_ThreeFailureOutcomes ==
  [][\A r \in Req :
       /\ req'[r].calls <= 1
       /\ FailStep(r) =>
            /\ req'[r].pc = "done"
            /\ req'[r].calls = 1
            /\ req'[r].code = "insufficient_quota" => req'[r].status = 402
            /\ req'[r].code = "invalid_api_key" => req'[r].status = 401
            /\ req'[r].code \notin {"insufficient_quota", "invalid_api_key"} =>
                 req'[r].status = 500]_vars

\* C22 witness: a chat request whose completion call failed for exhausted
\* quota was answered 402 after one call.
C22_Witness ==
  \E r \in Req :
    /\ req[r].kind = "chat" /\ req[r].pc = "done" /\ req[r].err = "completion"
    /\ req[r].code = "insufficient_quota" /\ req[r].status = 402
    /\ req[r].calls = 1

\* m.role !== 'system'
NotSystem(m) == m.role # "system"

\* C24: a history request that answers 200 answers exactly the non-system
\* messages of the session, as cached when it answers, in their order.
C24_HistoryIsNonSystemInOrder ==
  [][\A r \in Req :
       (AnswerStep(r) /\ req'[r].kind = "history" /\ req'[r].status = 200) =>
         /\ conversations'[req'[r].sid] # NoObj
         /\ req'[r].body =
              SelectSeq(heap'[conversations'[req'[r].sid]].messages, NotSystem)]_vars

\* C24 witness: after a chat exchange on a new session, the history request
\* was answered the user message and the reply, in this order.
C24_Witness ==
  \E r \in Req :
    /\ req[r].kind = "history" /\ req[r].pc = "done" /\ req[r].status = 200
    /\ req[r].n = FirstContent + 1
    /\ req[r].body = << UserMsg(FirstContent), AssistantMsg(FirstContent) >>
    /\ CachedMessages(req[r].sid) =
         << SystemMsg, UserMsg(FirstContent), AssistantMsg(FirstContent) >>

\* C26: a history request whose select failed, for a session that was not
\* cached, does not answer 200.
C26_ReadFailureIsSurfaced ==
  [][\A r \in Req :
       (/\ req[r].pc \in {"fetched", "insert"}
        /\ req[r].err = "store"
        /\ req[r].kind = "history"
        /\ AnswerStep(r)) => req'[r].status # 200]_vars

\* C29: when a reply is appended and the conversation then has at most 20
\* messages, the conversation is exactly the old one with the reply at its
\* end.
C29_WindowKeepsShortHistory ==
  [][\A r \in Req :
       (/\ ReplyStep(r)
        /\ Len(heap[req[r].conv].messages) + 1 <= HistoryLimit
        /\ Referenced(req[r].conv, conversations', req')) =>
         heap'[req[r].conv].messages =
           Append(heap[req[r].conv].messages, AssistantMsg(req[r].n))]_vars

\* C29 witness: the second exchange of a session has ended with five
\* messages, all kept in their order.
C29_Witness ==
  \E s \in SessionIds :
    /\ Cached(s)
    /\ CachedMessages(s) =
         << SystemMsg >> \o Exchanges(FirstContent, FirstContent + 1)
    /\ \A r \in Req : ~Busy(r)

\* C30: when every request has finished and no call has failed, neither
\* the cache nor the table holds, for an id whose delete succeeded and that
\* no later request has named, a message that the id had when the delete
\* began.
C30_NoResurrection ==
  (NoFault /\ \A r \in Req : ~Busy(r)) =>
    \A s \in fresh : History(s) \cap gone[s] = {}

\* The line `ROLE: content` of a message that is not the system message.
LineOf(m) ==
  << IF m.role = "user" THEN "USER" ELSE "ASSISTANT", m.content >>

\* C28, as claimed: the transcript has exactly one line per non-system
\* message of the row, in order, and none for the system message.
C28_OneLinePerNonSystemMessage ==
  [][\A r \in Req :
       (AnalyzeReadStep(r) /\ req'[r].pc = "analyzeCompletion") =>
         LET kept == SelectSeq(store[req[r].sid].messages, NotSystem)
         IN /\ Len(req'[r].transcript) = Len(kept)
            /\ \A i \in 1 .. Len(kept) :
                 req'[r].transcript[i] = LineOf(kept[i])]_vars

\* m.role !== 'system' && typeof m.content === 'string'
NotSystemWithText(m) == m.role # "system" /\ m.content # NoText

\* C28, amended: the transcript has exactly one line per non-system
\* message of the row whose content is a string, in order, and none for
\* the system message or for a message whose content is not a string.
C28_OneLinePerTextMessage ==
  [][\A r \in Req :
       (AnalyzeReadStep(r) /\ req'[r].pc = "analyzeCompletion") =>
         LET kept == SelectSeq(store[req[r].sid].messages, NotSystemWithText)
         IN /\ Len(req'[r].transcript) = Len(kept)
            /\ \A i \in 1 .. Len(kept) :
                 req'[r].transcript[i] = LineOf(kept[i])]_vars

\* C28 witness: the transcript of a row of the system message, a user
\* message with a text, one without and a reply has the two lines of the
\* messages with a text.
C28_Witness ==
  \E r \in Req :
    /\ req[r].pc = "analyzeCompletion"
    /\ store[req[r].sid].messages =
         << SystemMsg, UserMsg(1), UserMsg(NoText), AssistantMsg(1) >>
    /\ req[r].transcript = << << "USER", 1 >>, << "ASSISTANT", 1 >> >>

\* The messages behind the entry of sid in the list: the row's with
\* Supabase, the cached ones without.
Listed(sid) ==
  IF supabase THEN store[sid].messages ELSE CachedMessages(sid)

\* C23: a list that answers 200 gives, for every session in it, the number
\* of its messages that are not system messages, and its entries are in
\* descending order of createdAt.
C23_ListCountsAndOrder ==
  [][\A r \in Req :
       (AnswerStep(r) /\ req'[r].kind = "list" /\ req'[r].status = 200) =>
         LET l == req'[r].sessions
         IN /\ \A i \in DOMAIN l :
                 l[i].messageCount =
                   Len(SelectSeq(Listed(l[i].sessionId), NotSystem))
            /\ \A i, j \in DOMAIN l :
                 i < j => l[i].createdAt >= l[j].createdAt]_vars

\* The step in which the chat handler of r appends its user message.
UserAppendStep(r) == req[r].pc # "completion" /\ req'[r].pc = "completion"

\* C25: the step that appends a user message and the step that appends a
\* reply set lastActivity of the conversation to the time of the step, and
\* lastActivity of a cached conversation is never before its createdAt.
C25_LastActivityOnEveryAppend ==
  [][/\ \A r \in Req :
          /\ UserAppendStep(r) =>
               heap'[req'[r].conv].lastActivity = clock'
          /\ (ReplyStep(r) /\ Referenced(req[r].conv, conversations', req')) =>
               heap'[req[r].conv].lastActivity = clock'
     /\ \A s \in SessionIds :
          conversations'[s] # NoObj =>
            heap'[conversations'[s]].lastActivity >=
              heap'[conversations'[s]].createdAt]_vars

\* C27: the createdAt of a session is one value: what the history handler
\* answers from the cache and what the list, or a rebuild of the cache,
\* takes from the row are the same, and no step changes either while the
\* session stays cached or stored. Stated for the runs in which no call
\* fails, where it is violated already.
C27_CreatedAtImmutable ==
  [][NoFault' =>
     \A s \in SessionIds :
       /\ (Cached(s) /\ Stored(s)) =>
            heap[conversations[s]].createdAt = store[s].created_at
       /\ (Cached(s) /\ conversations'[s] # NoObj) =>
            heap'[conversations'[s]].createdAt = heap[conversations[s]].createdAt
       /\ (Stored(s) /\ ~store'[s].absent) =>
            store'[s].created_at = store[s].created_at]_vars

\* C31: when the select of a chat request has failed and its exchange is
\* persisted without an error, the row it replaces loses no user or
\* assistant message, unless the new row is a full window.
C31_ReadFailureKeepsHistory ==
  [][\A r \in Req :
       (/\ PersistedStep(r)
        /\ req[r].err = "store"
        /\ Stored(req[r].sid)
        /\ ~store'[req[r].sid].absent
        /\ Len(store'[req[r].sid].messages) < HistoryLimit) =>
         Range(store[req[r].sid].messages) \ {SystemMsg}
           \subseteq Range(store'[req[r].sid].messages)]_vars

\* A step of the history, list or analysis handler in slot r.
ReadOnlyStep(r) ==
  req'[r] # req[r] /\ req'[r].kind \in {"history", "list", "analysis"}

\* C32: no step of a history, list or analysis handler changes the table:
\* no row is created, removed or changed, and no lead column is written.
\* Stated for the runs in which no call fails, where it is violated already.
C32_ReadsDoNotWrite ==
  [][NoFault' =>
     \A r \in Req : ReadOnlyStep(r) => store' = store /\ leads' = leads]_vars

\* The step in which the chat page posts a chat request.
SendStep == page.open /\ Len(page'.calls) > Len(page.calls)

\* C33: the chat page posts a chat request only after initializeSession
\* has succeeded, and the request carries the session id.
C33_NoChatWithoutSession ==
  [][SendStep =>
       /\ page.session = "assigned"
       /\ page'.calls[Len(page'.calls)].sessionId # NullId]_vars

\* The step in which a delete of the dashboard succeeds.
DeleteOkStep == dash.open /\ dash'.backend # dash.backend

\* C34: once every answer has arrived, the message pane of the dashboard
\* holds only messages of the current session, and the step in which a
\* delete succeeds leaves the pane empty and no session selected.
C34_PaneShowsCurrentSession ==
  [][/\ (dash'.open /\ dash'.fetches = << >>) =>
          \A i \in DOMAIN dash'.messagesEl :
            dash'.messagesEl[i].session = dash'.currentSessionId
     /\ DeleteOkStep =>
          /\ dash'.messagesEl = << >>
          /\ dash'.currentSessionId = NullId]_vars

====
